---- MODULE Spec2Model ----
(***************************************************************************)
(* Model of scripts/medical_license_calculation.py: the percentile         *)
(* converter, the rate composer calculate_true_pass_rate, and the          *)
(* module-level driver (loop, DataFrame, sort_values, to_string, to_csv).  *)
(*                                                                         *)
(* Numbers.  The script computes in IEEE doubles; the model computes in    *)
(* exact rationals <<numerator, denominator>> kept in lowest terms, so     *)
(* that products, percentages and reciprocals are real computations.       *)
(* norm.cdf is tabulated (three decimals) at the z-scores the model uses.  *)
(*                                                                         *)
(* Strings.  The dictionary keys of the script are Japanese; the module    *)
(* uses romanised ASCII strings for them, listed next to each key below.   *)
(***************************************************************************)
EXTENDS Integers, Sequences, FiniteSets

\* ----------------------------------------------------------------- bounds
\* Longest dataset (number of profession records) the driver is run on.
MaxRecords == 3
\* Number of composer calls made on one record under SpecCompose.
MaxCalls == 2

\* ------------------------------------------------------ program constants
\* hensachi_to_percentile: z_score = (hensachi - 50) / 10
HensachiMean == 50
HensachiSd == 10
\* data.get(hensachi_key, 50)
DefaultHensachi == 50

\* ------------------------------------------------------------ rationals
RECURSIVE GCD(_, _)
GCD(a, b) == IF b = 0 THEN a ELSE GCD(b, a % b)

Abs(n) == IF n < 0 THEN -n ELSE n

\* n/d in lowest terms, d > 0
Norm(n, d) ==
    LET g == GCD(Abs(n), Abs(d))
        s == IF d < 0 THEN -1 ELSE 1
    IN  <<(s * n) \div g, (s * d) \div g>>

RMul(x, y) == Norm(x[1] * y[1], x[2] * y[2])
RDiv(x, y) == Norm(x[1] * y[2], x[2] * y[1])
RSub(x, y) == Norm(x[1] * y[2] - y[1] * x[2], x[2] * y[2])
\* x >= y, compared over the least common denominator
RGeq(x, y) ==
    LET l == (x[2] * y[2]) \div GCD(x[2], y[2])
    IN  x[1] * (l \div x[2]) >= y[1] * (l \div y[2])
RInt(n) == <<n, 1>>
\* numpy float64: 1 / 0.0 is inf (RuntimeWarning, no exception)
Inf == <<1, 0>>

\* ------------------------------------------------------------- the keys
K_exam == "kokka_shiken_gokakuritsu"      \* "国家試験合格率"
K_new  == "shinsotsu_gokakuritsu"         \* "新卒合格率"
K_low  == "nyugaku_hensachi_saitei"       \* "入学偏差値_最低"
K_avg  == "nyugaku_hensachi_heikin"       \* "入学偏差値_平均"
K_high == "nyugaku_hensachi_joui"         \* "入学偏差値_上位"
K_grad == "straight_sotsugyoritsu"        \* "ストレート卒業率"
K_pre  == "zentei_shikaku"                \* "前提資格"
Keys == {K_exam, K_new, K_low, K_avg, K_high, K_grad, K_pre}

\* use_hensachi: "最低", "平均", "上位"
T_low  == "saitei"
T_avg  == "heikin"
T_high == "joui"
Tiers == {T_low, T_avg, T_high}

\* dict.get(key, default)
Get(data, key, default) == IF key \in DOMAIN data THEN data[key] ELSE default

\* --------------------------------------------------- percentile converter
\* scipy.stats.norm.cdf at the z-scores of the model, to three decimals;
\* in doubles norm.cdf(9.0) is exactly 1.0
norm_cdf(z) ==
    CASE z = RInt(-2) -> <<23, 1000>>
      [] z = RInt(-1) -> <<159, 1000>>
      [] z = RInt(0)  -> <<1, 2>>
      [] z = RInt(1)  -> <<841, 1000>>
      [] z = RInt(2)  -> <<977, 1000>>
      [] z = RInt(9)  -> <<1, 1>>

hensachi_to_percentile(hensachi) ==
    LET z_score == RDiv(RInt(hensachi - HensachiMean), RInt(HensachiSd))
    IN  RMul(RSub(RInt(1), norm_cdf(z_score)), RInt(100))

percentile_to_probability(percentile) == RDiv(percentile, RInt(100))

\* ----------------------------------------------------------- rate composer
\* Faulty variant: the keys of the low and the high tier exchanged.
hensachi_key_swapped(use_hensachi) ==
    IF use_hensachi = T_low THEN K_high
    ELSE IF use_hensachi = T_high THEN K_low
    ELSE K_avg

\* if use_hensachi == "最低" ... elif use_hensachi == "上位" ... else ...
hensachi_key(use_hensachi) ==
    IF use_hensachi = T_low THEN K_low
    ELSE IF use_hensachi = T_high THEN K_high
    ELSE K_avg

\* data.get("ストレート卒業率", 0.85)
straight_graduation_rate(data) == Get(data, K_grad, <<17, 20>>)

\* data.get("国家試験合格率", 0.90)
national_exam_pass_rate(data) == Get(data, K_exam, <<9, 10>>)

\* Faulty variant: the overall exam pass rate is used even when the record has a
\* new-graduate pass rate.
new_grad_pass_rate_ignored(data) == national_exam_pass_rate(data)

\* data.get("新卒合格率", national_exam_pass_rate)
new_grad_pass_rate(data) == Get(data, K_new, national_exam_pass_rate(data))

\* Faulty variant: the graduation rate left out of the product.
true_pass_rate_two_factors(selection_probability, grad_rate, exam_rate) ==
    RMul(selection_probability, exam_rate)

\* selection_probability * straight_graduation_rate * new_grad_pass_rate
true_pass_rate(selection_probability, grad_rate, exam_rate) ==
    RMul(RMul(selection_probability, grad_rate), exam_rate)

\* Faulty variant: the division of built-in Python floats, which raises
\* ZeroDivisionError on a zero divisor.
ReciprocalBuiltinFloat(x) ==
    IF x[1] = 0 THEN [exc |-> TRUE, val |-> Inf]
    ELSE [exc |-> FALSE, val |-> RDiv(RInt(1), x)]

\* 1 / true_pass_rate.  true_pass_rate is a numpy.float64 (norm.cdf returns
\* one, and it propagates through 1 - x, * 100, / 100 and the products), so
\* a zero divisor yields inf with a RuntimeWarning and nothing is raised.
Reciprocal(x) ==
    IF x[1] = 0 THEN [exc |-> FALSE, val |-> Inf]
    ELSE [exc |-> FALSE, val |-> RDiv(RInt(1), x)]

\* Faulty variant: the composer writes the default it applied back into the record
\* (data.setdefault in place of data.get).
DataAfterCallSetdefault(data, use_hensachi) ==
    [k \in DOMAIN data \cup {hensachi_key(use_hensachi)} |->
        IF k \in DOMAIN data THEN data[k] ELSE DefaultHensachi]

\* The record after a call: the composer only reads it (data.get, `in`).
DataAfterCall(data, use_hensachi) == data

\* The returned dict.  Fields, in the order of the source:
\*   license_name "資格名", hensachi "使用偏差値", upper_percentile "人口上位%",
\*   selection_probability "入学確率", straight_graduation_rate
\*   "ストレート卒業率", new_grad_pass_rate "新卒国試合格率", true_pass_rate
\*   "本当の合格率", true_pass_rate_pct "本当の合格率%", nanido "難易度(何人に1人)"
\* exc is TRUE when evaluating 1 / true_pass_rate raised (line 176, inside
\* the print of the block, before anything is returned).
calculate_true_pass_rate(license_name, data, use_hensachi) ==
    LET hensachi == Get(data, hensachi_key(use_hensachi), DefaultHensachi)
        upper_percentile == hensachi_to_percentile(hensachi)
        selection_probability == percentile_to_probability(upper_percentile)
        grad == straight_graduation_rate(data)
        newgrad == new_grad_pass_rate(data)
        tpr == true_pass_rate(selection_probability, grad, newgrad)
        inv == Reciprocal(tpr)
    IN  [exc |-> inv.exc,
         ret |-> [license_name |-> license_name,
                  hensachi |-> hensachi,
                  upper_percentile |-> upper_percentile,
                  selection_probability |-> selection_probability,
                  straight_graduation_rate |-> grad,
                  new_grad_pass_rate |-> newgrad,
                  true_pass_rate |-> tpr,
                  true_pass_rate_pct |-> RMul(tpr, RInt(100)),
                  nanido |-> inv.val]]

\* --------------------------------------------------------------- datasets
\* Values the fields of a record are drawn from; <<>> is "key absent".
Opt(S) == {<<>>} \cup {<<v>> : v \in S}

MkRecord(full) ==
    LET present == {k \in Keys : full[k] # <<>>}
    IN  [k \in present |-> full[k][1]]

\* Every record shape: each key present or absent.
Records ==
    {MkRecord([k \in Keys |->
            CASE k = K_exam -> e [] k = K_new -> n [] k = K_low -> l
              [] k = K_avg -> a [] k = K_high -> h [] k = K_grad -> g
              [] k = K_pre -> p]) :
        e \in Opt({<<1, 2>>}), n \in Opt({<<4, 5>>}), l \in Opt({30}),
        a \in Opt({70, 140}), h \in Opt({60}), g \in Opt({<<0, 1>>, <<3, 4>>}),
        p \in Opt({"kangoshi"})}

\* The records the driver is run on (the driver reads the average tier only).
\*   R_full     every field the driver reads, like "医師"
\*   R_plain    no new-graduate rate, no graduation rate
\*   R_pre      a dependent licence, like "保健師"
\*   R_zero     graduation rate 0: composed probability 0
\*   R_notier   no average-tier score (default 50); ties with R_plain
\*   R_far      score 140: admission probability 0 in doubles
R_full   == MkRecord([k \in Keys |->
              CASE k = K_exam -> <<(<<1, 2>>)>> [] k = K_new -> <<(<<4, 5>>)>>
                [] k = K_avg -> <<70>> [] k = K_grad -> <<(<<3, 4>>)>>
                [] OTHER -> <<>>])
R_plain  == MkRecord([k \in Keys |->
              CASE k = K_exam -> <<(<<1, 2>>)>> [] k = K_avg -> <<50>>
                [] OTHER -> <<>>])
R_pre    == MkRecord([k \in Keys |->
              CASE k = K_exam -> <<(<<1, 2>>)>> [] k = K_pre -> <<"kangoshi">>
                [] OTHER -> <<>>])
R_zero   == MkRecord([k \in Keys |->
              CASE k = K_exam -> <<(<<1, 2>>)>> [] k = K_avg -> <<50>>
                [] k = K_grad -> <<(<<0, 1>>)>> [] OTHER -> <<>>])
R_notier == MkRecord([k \in Keys |->
              CASE k = K_exam -> <<(<<1, 2>>)>> [] k = K_low -> <<30>>
                [] k = K_high -> <<60>> [] OTHER -> <<>>])
R_far    == MkRecord([k \in Keys |->
              CASE k = K_exam -> <<(<<1, 2>>)>> [] k = K_new -> <<(<<4, 5>>)>>
                [] k = K_avg -> <<140>> [] OTHER -> <<>>])
DriverRecords == {R_full, R_plain, R_pre, R_zero, R_notier, R_far}

\* medical_licenses_data.items(): the k-th item is named k.
Datasets(Pool, lo, hi) ==
    UNION {{[k \in 1..n |-> [license_name |-> k, data |-> f[k]]] :
                f \in [1..n -> Pool]} : n \in lo..hi}

\* ------------------------------------------------------------------ state
VARIABLES
    dataset,       \* medical_licenses_data, as the sequence of its items
    i,             \* position of the for loop in dataset
    results,       \* the list `results`
    result,        \* <<>>, or <<r>>: the value the last composer call returned
    use_hensachi,  \* tier argument of the last composer call
    ncalls,        \* number of composer calls made so far
    pc,            \* position of the script
    error,         \* the uncaught exception that ended the run, or "none"
    out,           \* standard output, as the sequence of the blocks printed
                   \*   (Block, TableBlock, SavedLine below)
    df,            \* the DataFrame, as the sequence of its rows
    csv,           \* the rows of the exported file; <<>> while not written
    attempts       \* number of to_csv calls made

vars == <<dataset, i, results, result, use_hensachi, ncalls, pc, error, out,
          df, csv, attempts>>

\* --------------------------------------------------------- what is printed
\* The breakdown block of one composer call (lines 130-177): it shows the
\* tier and every value of the returned dict.
Block(tier, ret) == [kind |-> "block", tier |-> tier, rows |-> <<ret>>]
\* A block cut short by an exception raised while it was being printed.
PartialBlock(tier) == [kind |-> "partial", tier |-> tier, rows |-> <<>>]
\* The ranked table with its heading (lines 208-213).
TableBlock(rows) == [kind |-> "table", tier |-> "none", rows |-> rows]
\* The line reporting the export (line 217).
SavedLine == [kind |-> "saved", tier |-> "none", rows |-> <<>>]

\* ------------------------------------------------------------- the driver
\* Faulty variant: the skip test dropped from the loop.
HasPrerequisiteNever(data) == FALSE

\* if "前提資格" in data: continue
HasPrerequisite(data) == K_pre \in DOMAIN data

\* calculate_true_pass_rate(license_name, data, use_hensachi="平均")
DriverTier == T_avg

Permutations(n) ==
    {p \in [1..n -> 1..n] : \A a, b \in 1..n : p[a] = p[b] => a = b}

\* Faulty variant: ascending=False forgotten.
sort_values_ascending(rows) ==
    {[k \in 1..Len(rows) |-> rows[p[k]]] :
        p \in {q \in Permutations(Len(rows)) :
                 \A k \in 1..(Len(rows) - 1) :
                    RGeq(rows[q[k + 1]].true_pass_rate_pct,
                         rows[q[k]].true_pass_rate_pct)}}

\* df.sort_values("本当の合格率%", ascending=False), kind left at its default
\* "quicksort", which numpy documents as not stable: every descending
\* arrangement of the rows is a possible outcome, whatever the order of ties.
sort_values(rows) ==
    {[k \in 1..Len(rows) |-> rows[p[k]]] :
        p \in {q \in Permutations(Len(rows)) :
                 \A k \in 1..(Len(rows) - 1) :
                    RGeq(rows[q[k]].true_pass_rate_pct,
                         rows[q[k + 1]].true_pass_rate_pct)}}

Init ==
    /\ dataset \in Datasets(DriverRecords, 0, MaxRecords)
    /\ i = 1
    /\ results = <<>>
    /\ result = <<>>
    /\ use_hensachi = "none"
    /\ ncalls = 0
    /\ pc = "for"
    /\ error = "none"
    /\ out = <<>>
    /\ df = <<>>
    /\ csv = <<>>
    /\ attempts = 0

\* for ...: if "前提資格" in data: continue
ForSkip ==
    /\ pc = "for"
    /\ i <= Len(dataset)
    /\ HasPrerequisite(dataset[i].data)
    /\ i' = i + 1
    /\ UNCHANGED <<dataset, results, result, use_hensachi, ncalls, pc, error,
                   out, df, csv, attempts>>

\* result = calculate_true_pass_rate(license_name, data, use_hensachi="平均")
Call ==
    /\ pc = "for"
    /\ i <= Len(dataset)
    /\ ~HasPrerequisite(dataset[i].data)
    /\ LET name == dataset[i].license_name
           c == calculate_true_pass_rate(name, dataset[i].data, DriverTier)
       IN  /\ use_hensachi' = DriverTier
           /\ ncalls' = ncalls + 1
           /\ dataset' = [dataset EXCEPT
                            ![i].data = DataAfterCall(@, DriverTier)]
           /\ IF c.exc
              THEN /\ pc' = "crashed"
                   /\ error' = "ZeroDivisionError"
                   /\ out' = Append(out, PartialBlock(DriverTier))
                   /\ result' = result
              ELSE /\ pc' = "append"
                   /\ error' = error
                   /\ out' = Append(out, Block(DriverTier, c.ret))
                   /\ result' = <<c.ret>>
    /\ UNCHANGED <<i, results, df, csv, attempts>>

\* Faulty variant: results.insert(0, result).
AppendResultFront ==
    /\ pc = "append"
    /\ results' = <<result[1]>> \o results
    /\ i' = i + 1
    /\ pc' = "for"
    /\ UNCHANGED <<dataset, result, use_hensachi, ncalls, error, out, df, csv,
                   attempts>>

\* results.append(result), and on to the next item
AppendResult ==
    /\ pc = "append"
    /\ results' = Append(results, result[1])
    /\ i' = i + 1
    /\ pc' = "for"
    /\ UNCHANGED <<dataset, result, use_hensachi, ncalls, error, out, df, csv,
                   attempts>>

\* The loop is exhausted.
ForExit ==
    /\ pc = "for"
    /\ i > Len(dataset)
    /\ pc' = "frame"
    /\ UNCHANGED <<dataset, i, results, result, use_hensachi, ncalls, error,
                   out, df, csv, attempts>>

\* df = pd.DataFrame(results); df = df.sort_values(...).  A frame built from
\* an empty list has no columns, and sort_values raises KeyError.
BuildAndSort ==
    /\ pc = "frame"
    /\ IF results = <<>>
       THEN /\ pc' = "crashed"
            /\ error' = "KeyError"
            /\ df' = df
       ELSE /\ pc' = "print"
            /\ error' = error
            /\ df' \in sort_values(results)
    /\ UNCHANGED <<dataset, i, results, result, use_hensachi, ncalls, out, csv,
                   attempts>>

\* print(df.to_string(index=False)), with its heading
PrintTable ==
    /\ pc = "print"
    /\ out' = Append(out, TableBlock(df))
    /\ pc' = "export"
    /\ UNCHANGED <<dataset, i, results, result, use_hensachi, ncalls, error,
                   df, csv, attempts>>

\* df.to_csv(...) returns
ToCsvOk ==
    /\ pc = "export"
    /\ attempts' = attempts + 1
    /\ csv' = df
    /\ pc' = "message"
    /\ UNCHANGED <<dataset, i, results, result, use_hensachi, ncalls, error,
                   out, df>>

\* Faulty variant: the write wrapped in try/except: pass.
ToCsvFailsSwallowed ==
    /\ pc = "export"
    /\ attempts' = attempts + 1
    /\ pc' = "message"
    /\ UNCHANGED <<dataset, i, results, result, use_hensachi, ncalls, error,
                   out, df, csv>>

\* df.to_csv(...) raises OSError (missing directory, permissions); nothing
\* catches it
ToCsvFails ==
    /\ pc = "export"
    /\ attempts' = attempts + 1
    /\ pc' = "crashed"
    /\ error' = "OSError"
    /\ UNCHANGED <<dataset, i, results, result, use_hensachi, ncalls, out, df,
                   csv>>

\* print("\n結果をCSVファイルに出力しました: ...")
PrintSaved ==
    /\ pc = "message"
    /\ out' = Append(out, SavedLine)
    /\ pc' = "done"
    /\ UNCHANGED <<dataset, i, results, result, use_hensachi, ncalls, error,
                   df, csv, attempts>>

Next ==
    \/ ForSkip
    \/ Call
    \/ AppendResult
    \/ ForExit
    \/ BuildAndSort
    \/ PrintTable
    \/ ToCsvOk
    \/ ToCsvFails
    \/ PrintSaved

Spec == Init /\ [][Next]_vars

\* ------------------------------------------- the composer, called directly
\* One record and repeated calls of calculate_true_pass_rate on it, with any
\* tier.
InitCompose ==
    /\ dataset \in Datasets(Records, 1, 1)
    /\ i = 1
    /\ results = <<>>
    /\ result = <<>>
    /\ use_hensachi = "none"
    /\ ncalls = 0
    /\ pc = "compose"
    /\ error = "none"
    /\ out = <<>>
    /\ df = <<>>
    /\ csv = <<>>
    /\ attempts = 0

Compose ==
    /\ pc = "compose"
    /\ ncalls < MaxCalls
    /\ \E tier \in Tiers :
          LET name == dataset[i].license_name
              c == calculate_true_pass_rate(name, dataset[i].data, tier)
          IN  /\ use_hensachi' = tier
              /\ ncalls' = ncalls + 1
              /\ dataset' = [dataset EXCEPT ![i].data = DataAfterCall(@, tier)]
              /\ IF c.exc
                 THEN /\ pc' = "crashed"
                      /\ error' = "ZeroDivisionError"
                      /\ out' = Append(out, PartialBlock(tier))
                      /\ result' = result
                 ELSE /\ pc' = pc
                      /\ error' = error
                      /\ out' = Append(out, Block(tier, c.ret))
                      /\ result' = <<c.ret>>
    /\ UNCHANGED <<i, results, df, csv, attempts>>

NextCompose == Compose

SpecCompose == InitCompose /\ [][NextCompose]_vars

\* ----------------------------------------------------------------- claims
AfterLoop == pc \in {"frame", "print", "export", "message", "done"}
                \/ (pc = "crashed" /\ error \in {"KeyError", "OSError"})
AfterSort == pc \in {"print", "export", "message", "done"}
                \/ (pc = "crashed" /\ error = "OSError")
Exported == pc \in {"message", "done"}

IsZero(x) == x[1] = 0
Count(rows, name) ==
    Cardinality({k \in 1..Len(rows) : rows[k].license_name = name})

\* C1: a composed probability of exactly zero never raises: the result holds
\* inf in its "1 in N" field, no run ends in ZeroDivisionError, and after a
\* zero-probability record was collected the run can only be ended early by
\* the export failing.
C1_ZeroProbabilityGivesInf ==
    /\ error # "ZeroDivisionError"
    /\ \A k \in 1..Len(results) :
          IsZero(results[k].true_pass_rate) => results[k].nanido = Inf
    /\ \A k \in 1..Len(result) :
          IsZero(result[k].true_pass_rate) => result[k].nanido = Inf
    /\ (\E k \in 1..Len(results) : IsZero(results[k].true_pass_rate))
          => (pc = "crashed" => error = "OSError")

\* A finished run whose file holds a zero-probability row with inf, with a
\* later profession processed after it.
C1_Witness ==
    /\ pc = "done"
    /\ \E a, b \in 1..Len(csv) :
          /\ IsZero(csv[a].true_pass_rate)
          /\ csv[a].nanido = Inf
          /\ csv[b].license_name > csv[a].license_name
          /\ ~IsZero(csv[b].true_pass_rate)

\* C2: a record with a prerequisite licence is never in results, the table
\* or the file; a record without one is there at most once, and exactly once
\* as soon as the loop has ended (results), the table is built (df) and the
\* file is written (csv).
C2_PrerequisiteRecordsExcluded ==
    \A n \in 1..Len(dataset) :
        IF K_pre \in DOMAIN dataset[n].data
        THEN Count(results, n) = 0 /\ Count(df, n) = 0 /\ Count(csv, n) = 0
        ELSE /\ Count(results, n) <= 1 /\ Count(df, n) <= 1
             /\ Count(csv, n) <= 1
             /\ AfterLoop => Count(results, n) = 1
             /\ AfterSort => Count(df, n) = 1
             /\ Exported => Count(csv, n) = 1

\* A finished run over a dataset with both kinds of record.
C2_Witness ==
    /\ pc = "done"
    /\ \E a, b \in 1..Len(dataset) :
          /\ K_pre \in DOMAIN dataset[a].data
          /\ K_pre \notin DOMAIN dataset[b].data
          /\ a < b
    /\ Len(csv) >= 1

\* C3: the table is a permutation of the collected results, and the composed
\* probability never increases from one row to the next.
C3_TableSortedDescending ==
    AfterSort =>
        /\ Len(df) = Len(results)
        /\ \E p \in Permutations(Len(results)) :
              df = [k \in 1..Len(results) |-> results[p[k]]]
        /\ \A k \in 1..(Len(df) - 1) :
              RGeq(df[k].true_pass_rate, df[k + 1].true_pass_rate)

\* Three results with three different probabilities, moved by the sort.
C3_Witness ==
    /\ pc = "print"
    /\ Len(df) = 3
    /\ df # results
    /\ df[1].true_pass_rate # df[2].true_pass_rate
    /\ df[2].true_pass_rate # df[3].true_pass_rate

\* C4: the sort is stable: rows with equal composed probability are in the
\* table in iteration order (names are positions in the dataset).
C4_SortIsStable ==
    \A a, b \in 1..Len(df) :
        (a < b /\ df[a].true_pass_rate = df[b].true_pass_rate)
            => df[a].license_name < df[b].license_name

\* C5: the export is attempted at most once, and only after a block for each
\* collected result and then the table were printed; when it fails the run
\* ends with OSError, the output is those blocks and the table and nothing
\* else, and no file exists; the line reporting the export is printed only
\* after a write that succeeded.
C5_ExportFailureIsFatal ==
    /\ attempts <= 1
    /\ attempts >= 1 =>
          /\ Len(out) >= Len(results) + 1
          /\ \A k \in 1..Len(results) : out[k] = Block(T_avg, results[k])
          /\ out[Len(results) + 1] = TableBlock(df)
    /\ error = "OSError" =>
          /\ pc = "crashed"
          /\ attempts = 1
          /\ csv = <<>>
          /\ Len(out) = Len(results) + 1
    /\ (\E k \in 1..Len(out) : out[k] = SavedLine) =>
          /\ attempts = 1
          /\ error = "none"
          /\ csv = df
          /\ csv # <<>>

\* A run ended by the failed write, after two blocks and the table.
C5_Witness ==
    /\ error = "OSError"
    /\ Len(results) = 2
    /\ Len(out) = 3

\* C6: in every returned result the composed probability is the product of
\* the admission probability, the graduation rate and the exam pass rate of
\* that result, and the percentage is that product times 100.
C6_ProductOfThreeFields ==
    \A k \in 1..Len(result) :
        /\ result[k].true_pass_rate =
              RMul(RMul(result[k].selection_probability,
                        result[k].straight_graduation_rate),
                   result[k].new_grad_pass_rate)
        /\ result[k].true_pass_rate_pct =
              RMul(result[k].true_pass_rate, RInt(100))

\* A result with three proper fractions as its factors.
C6_Witness ==
    /\ result # <<>>
    /\ result[1].selection_probability = <<23, 1000>>
    /\ result[1].straight_graduation_rate = <<3, 4>>
    /\ result[1].new_grad_pass_rate = <<4, 5>>
    /\ result[1].true_pass_rate = <<69, 5000>>

\* C7: the exam rate of the result is the new-graduate rate of the record
\* when it has one, else its overall rate; the graduation rate is 0.85 when
\* the record has none; and no call raises.
C7_Defaults ==
    /\ error = "none"
    /\ pc # "crashed"
    /\ \A k \in 1..Len(result) :
          LET d == dataset[1].data
          IN  /\ K_new \in DOMAIN d => result[k].new_grad_pass_rate = d[K_new]
              /\ (K_new \notin DOMAIN d /\ K_exam \in DOMAIN d)
                    => result[k].new_grad_pass_rate = d[K_exam]
              /\ K_grad \in DOMAIN d
                    => result[k].straight_graduation_rate = d[K_grad]
              /\ K_grad \notin DOMAIN d
                    => result[k].straight_graduation_rate = <<17, 20>>

\* A result for a record that has both exam rates and no graduation rate.
C7_Witness ==
    /\ result # <<>>
    /\ DOMAIN dataset[1].data = {K_exam, K_new, K_avg}
    /\ result[1].new_grad_pass_rate = <<4, 5>>
    /\ result[1].straight_graduation_rate = <<17, 20>>

\* C8: the score of the result is the record's score for the requested tier,
\* and 50 when the record has no score for that tier.
C8_TierSelectsScore ==
    \A k \in 1..Len(result) :
        LET d == dataset[1].data
        IN  /\ use_hensachi = T_low =>
                 result[k].hensachi =
                    IF K_low \in DOMAIN d THEN d[K_low] ELSE 50
            /\ use_hensachi = T_high =>
                 result[k].hensachi =
                    IF K_high \in DOMAIN d THEN d[K_high] ELSE 50
            /\ use_hensachi = T_avg =>
                 result[k].hensachi =
                    IF K_avg \in DOMAIN d THEN d[K_avg] ELSE 50

\* The low tier asked of a record that has the other two scores only.
C8_Witness ==
    /\ result # <<>>
    /\ use_hensachi = T_low
    /\ K_low \notin DOMAIN dataset[1].data
    /\ K_avg \in DOMAIN dataset[1].data
    /\ K_high \in DOMAIN dataset[1].data
    /\ result[1].hensachi = 50

RECURSIVE Collected(_, _)
Collected(ds, n) ==
    IF n = 0 THEN <<>>
    ELSE IF K_pre \in DOMAIN ds[n].data THEN Collected(ds, n - 1)
    ELSE Append(Collected(ds, n - 1),
                calculate_true_pass_rate(ds[n].license_name, ds[n].data,
                                         T_avg).ret)

====
